---- MODULE Spec2Model ----
(***************************************************************************)
(* ChangesReader (src/index.js): the long-poll reader of a CouchDB         *)
(* _changes feed.  The model holds the reader session (the fields that     *)
(* setDefaults() sets), the position of the async.doWhilst loop, the       *)
(* clock that paces empty polls, and the history of what the reader sent,  *)
(* received and emitted.                                                   *)
(*                                                                         *)
(* async.doWhilst(iteratee, test, callback) runs the iteratee once, and    *)
(* after each next() calls test(): true runs the iteratee again, false (or *)
(* next(err) with an error) runs the callback.  Event listeners are taken  *)
(* to return normally, and an 'error' listener to be attached.             *)
(*                                                                         *)
(* spool() (src/index.js) and the changeProcessor                          *)
(* (src/lib/changeprocessor.js) are the second pipeline: one streaming     *)
(* request whose response is written line by line to the changeProcessor,  *)
(* which parses, batches and flushes; 'end' follows its 'finish' by a      *)
(* timer.                                                                  *)
(***************************************************************************)
EXTENDS Integers, Sequences, FiniteSets, TLC

\* ------------------------------------------------------------- bounds
\* long-poll requests issued over a whole behaviour
MaxReqs == 2
\* runs begun over a whole behaviour
MaxRuns == 2
\* records of one response
MaxResults == 2
\* the timeout a caller passes, in ms
OptTimeout == 1
\* lines of one spooled response
MaxLines == 4
\* spool() calls over a whole behaviour
MaxSpools == 1

\* ------------------------------------------------- program constants
DefaultBatchSize == 100
DefaultTimeout == 60000
DefaultHeartbeat == 5000
DefaultStatus == 500

\* sequence tokens are opaque strings; "" is an absent (falsy) last_seq
Now == "now"
\* the selector of an unfiltered feed
Null == "null"
ServerTokens == {"s1", "s2"}
Absent == ""
\* the order the remote system gives its tokens (never used by the reader)
Rank(t) == CASE t = "s1" -> 1 [] t = "s2" -> 2 [] OTHER -> 0

\* response statuses of a failed request; 0 is "no response at all"
NoResponse == 0
Statuses == {NoResponse, 400, 429, 499, 500}

VARIABLES
    self,      \* the reader session: the fields setDefaults() sets
    pc,        \* where the loop is: "idle", "inflight", "pacing", "ack"
    age,       \* getTS() - lastReqTS, kept up to timeout + 1 ("more than timeout")
    timerAt,   \* the age at which the pending setTimeout fires
    trace,     \* history of the latest run: its requests, responses and emitted events
    run,       \* history of the latest run: how it began and whether stop() was called
    last,      \* the operation that led to this state, and the handle it returned
    issued,    \* the long-poll requests issued so far
    endCall,   \* what the 'end' listener called in the step that led here, and what it got back
    sp         \* the spool pipeline: its request, its stream and the changeProcessor

vars == <<self, pc, age, timerAt, trace, run, last, issued, endCall, sp>>

\* ------------------------------------------------------------ session
\* (faulty variant: the cursor survives the reset)
setDefaultsKeepSince(s) ==
    [ee                 |-> s.ee + 1,
     batchSize          |-> DefaultBatchSize,
     fastChanges        |-> FALSE,
     since              |-> IF "since" \in DOMAIN s THEN s.since ELSE Now,
     includeDocs        |-> FALSE,
     timeout            |-> DefaultTimeout,
     heartbeat          |-> DefaultHeartbeat,
     started            |-> FALSE,
     wait               |-> FALSE,
     stopOnEmptyChanges |-> FALSE,
     continue           |-> TRUE,
     qs                 |-> {},
     selector           |-> Null]

\* setDefaults(): a new emitter and every session field at its default
setDefaults(s) ==
    [ee                 |-> s.ee + 1,
     batchSize          |-> DefaultBatchSize,
     fastChanges        |-> FALSE,
     since              |-> Now,
     includeDocs        |-> FALSE,
     timeout            |-> DefaultTimeout,
     heartbeat          |-> DefaultHeartbeat,
     started            |-> FALSE,
     wait               |-> FALSE,
     stopOnEmptyChanges |-> FALSE,
     continue           |-> TRUE,
     qs                 |-> {},
     selector           |-> Null]

\* Object.assign(self, opts): the keys opts has overwrite the session's
\* (the option objects the model passes: none, a small batch and timeout,
\* the same in wait mode, a resume cursor with a filtered, enriched feed)
OptKeySets ==
    {{}, {"batchSize", "timeout"}, {"batchSize", "timeout", "wait"},
     {"since", "batchSize", "fastChanges", "includeDocs", "heartbeat", "qs", "selector"}}
OptsSet ==
    {[keys |-> K,
      batchSize   |-> IF "batchSize" \in K THEN MaxResults ELSE 0,
      fastChanges |-> "fastChanges" \in K,
      since       |-> IF "since" \in K THEN "s1" ELSE Absent,
      includeDocs |-> "includeDocs" \in K,
      wait        |-> "wait" \in K,
      timeout     |-> IF "timeout" \in K THEN OptTimeout ELSE 0,
      heartbeat   |-> IF "heartbeat" \in K THEN OptTimeout ELSE 0,
      qs          |-> IF "qs" \in K THEN {"style"} ELSE {},
      selector    |-> IF "selector" \in K THEN "sel" ELSE Null]
        : K \in OptKeySets}

assign(s, opts) ==
    [s EXCEPT !.batchSize   = IF "batchSize" \in opts.keys THEN opts.batchSize ELSE @,
              !.fastChanges = IF "fastChanges" \in opts.keys THEN opts.fastChanges ELSE @,
              !.since       = IF "since" \in opts.keys THEN opts.since ELSE @,
              !.includeDocs = IF "includeDocs" \in opts.keys THEN opts.includeDocs ELSE @,
              !.wait        = IF "wait" \in opts.keys THEN opts.wait ELSE @,
              !.timeout     = IF "timeout" \in opts.keys THEN opts.timeout ELSE @,
              !.heartbeat   = IF "heartbeat" \in opts.keys THEN opts.heartbeat ELSE @,
              !.qs          = IF "qs" \in opts.keys THEN opts.qs ELSE @,
              !.selector    = IF "selector" \in opts.keys THEN opts.selector ELSE @]

\* ------------------------------------------------------------ history
Entry(k, nm, tok, recs, n, t) ==
    [kind |-> k, name |-> nm, tok |-> tok, recs |-> recs, n |-> n, t |-> t]
\* the request axios is given: params.since, params.limit
ReqEntry(s) == Entry("req", "longpoll", s.since, <<>>, s.batchSize, 0)
RespEntry(results, lastSeq) == Entry("resp", "ok", lastSeq, results, 0, 0)
FailEntry(status) == Entry("resp", "fail", Absent, <<>>, status, 0)
\* self.ee.emit(name, ...) on emitter s.ee
Emit(s, nm, tok, recs, n) == Entry("emit", nm, tok, recs, n, s.ee)

RECURSIVE CountKind(_, _)
CountKind(tr, k) ==
    IF tr = <<>> THEN 0
    ELSE (IF tr[1].kind = k THEN 1 ELSE 0) + CountKind(Tail(tr), k)
NReq(tr) == CountKind(tr, "req")

RECURSIVE Received(_)
\* the records of the successful responses, concatenated in arrival order
Received(tr) ==
    IF tr = <<>> THEN <<>>
    ELSE (IF tr[1].kind = "resp" /\ tr[1].name = "ok" THEN tr[1].recs ELSE <<>>)
         \o Received(Tail(tr))

\* --------------------------------------------------------------- loop
\* what the consumer's 'end' listener may call on the reader
EndCalls == {"none", "start", "get", "stop"}
\* no call made by the listener; on: whether the behaviour has a listener that calls
NoCall == [op |-> "none", ret |-> 0, on |-> endCall.on]

\* the session after the listener's call: at 'end' the run is still started, so
\* start() only returns the handle, get() sets stopOnEmptyChanges before it
\* does the same, stop() clears continue
EndListener(s, h) ==
    CASE h = "get"  -> [s EXCEPT !.stopOnEmptyChanges = TRUE]
      [] h = "stop" -> [s EXCEPT !.continue = FALSE]
      [] OTHER      -> s
EndReturn(s, h) == IF h \in {"start", "get"} THEN s.ee ELSE 0

\* the spool pipeline before spool() is called
SpoolIdle ==
    [pc |-> "idle", n |-> 0, ee |-> 0, batchSize |-> 0, since0 |-> Absent,
     input |-> <<>>, buffer |-> <<>>, lastSeq |-> Absent]

Boot(listens) ==
    /\ self = setDefaults([ee |-> 0])
    /\ pc = "idle"
    /\ age = 0
    /\ timerAt = 0
    /\ trace = <<>>
    /\ run = [n |-> 0, kind |-> "none", since0 |-> Now, handle |-> 0,
              stopped |-> FALSE, stopAt |-> 0, got |-> FALSE, keys |-> {}]
    /\ last = [op |-> "new", ret |-> 0]
    /\ issued = 0
    /\ endCall = [op |-> "none", ret |-> 0, on |-> listens]
    /\ sp = SpoolIdle

\* the state after construction; the consumer's 'end' listener calls nothing
Init == Boot(FALSE)

\* the iteratee: build the request from the session and issue it
Iteratee(s, tr) ==
    /\ issued < MaxReqs
    /\ issued' = issued + 1
    /\ self' = s
    /\ trace' = Append(tr, ReqEntry(s))
    /\ pc' = "inflight"
    /\ age' = 0
    /\ timerAt' = 0

\* (faulty variant: the session is reset before 'end' is emitted)
CallbackResetFirst(s, tr) ==
    \E h \in EndCalls :
        /\ h = "none" \/ (endCall.on /\ s.started)
        /\ self' = EndListener(setDefaults(s), h)
        /\ endCall' = [op |-> h, ret |-> EndReturn(setDefaults(s), h), on |-> endCall.on]
        /\ UNCHANGED issued
        /\ trace' = Append(tr, Emit(setDefaults(s), "end", setDefaults(s).since, <<>>, 0))
        /\ pc' = "idle"
        /\ age' = 0
        /\ timerAt' = 0

\* the final callback: emit 'end' with the cursor (the consumer's listener
\* runs inside the emit and may call the reader), then reset the session
Callback(s, tr) ==
    \E h \in EndCalls :
        /\ h = "none" \/ (endCall.on /\ s.started)
        /\ self' = setDefaults(EndListener(s, h))
        /\ endCall' = [op |-> h, ret |-> EndReturn(s, h), on |-> endCall.on]
        /\ UNCHANGED issued
        /\ trace' = Append(tr, Emit(s, "end", s.since, <<>>, 0))
        /\ pc' = "idle"
        /\ age' = 0
        /\ timerAt' = 0

\* (faulty variant: the loop never looks at continue)
testForever(s) == TRUE

\* the test of doWhilst
test(s) == s.continue

\* next(): test, then the iteratee again or the callback
LoopNext(s, tr) ==
    IF test(s) THEN Iteratee(s, tr) /\ endCall' = NoCall ELSE Callback(s, tr)

\* (faulty variant: no started guard, every call begins a loop)
StartUnguarded(opts, viaGet) ==
    LET nm == IF viaGet THEN "get" ELSE "start"
        s0 == IF viaGet THEN [self EXCEPT !.stopOnEmptyChanges = TRUE] ELSE self
        s1 == assign([s0 EXCEPT !.started = TRUE], opts)
    IN  /\ last' = [op |-> nm, ret |-> s0.ee]
        /\ run.n < MaxRuns
        /\ run' = [n |-> run.n + 1, kind |-> nm, since0 |-> s1.since,
                   handle |-> s1.ee, stopped |-> ~s1.continue, stopAt |-> 0,
                   got |-> FALSE, keys |-> opts.keys]
        /\ endCall' = NoCall
        /\ UNCHANGED sp
        /\ Iteratee(s1, <<>>)

\* start(opts), and get(opts) when viaGet: get sets stopOnEmptyChanges first
Start(opts, viaGet) ==
    LET nm == IF viaGet THEN "get" ELSE "start"
        s0 == IF viaGet THEN [self EXCEPT !.stopOnEmptyChanges = TRUE] ELSE self
    IN  /\ last' = [op |-> nm, ret |-> s0.ee]
        /\ UNCHANGED sp
        /\ IF s0.started
           THEN /\ self' = s0
                /\ run' = [run EXCEPT !.got = @ \/ viaGet]
                /\ UNCHANGED <<pc, age, timerAt, trace>>
                /\ endCall' = NoCall
                /\ UNCHANGED issued
           ELSE LET s1 == assign([s0 EXCEPT !.started = TRUE], opts)
                IN  \* (a second loop beside a running one is outside the model)
                    /\ pc = "idle"
                    /\ run.n < MaxRuns
                    /\ run' = [n |-> run.n + 1, kind |-> nm, since0 |-> s1.since,
                               handle |-> s1.ee, stopped |-> ~s1.continue, stopAt |-> 0,
                               got |-> FALSE, keys |-> opts.keys]
                    /\ endCall' = NoCall
                    /\ Iteratee(s1, <<>>)

\* the option objects callers pass: a call on a started session returns
\* before it looks at its options, so one option object stands for all
Passed ==
    IF self.started THEN {o \in OptsSet : o.keys = {}} ELSE OptsSet

StartCall == \E opts \in Passed : Start(opts, FALSE)

GetCall == \E opts \in Passed : Start(opts, TRUE)

\* stop(): prevent another poll happening
StopCall ==
    /\ self.continue
    /\ self' = [self EXCEPT !.continue = FALSE]
    /\ run' = IF pc # "idle"
              THEN [run EXCEPT !.stopped = TRUE, !.stopAt = Len(trace)]
              ELSE run
    /\ last' = [op |-> "stop", ret |-> 0]
    /\ UNCHANGED <<pc, age, timerAt, trace, sp>>
    /\ endCall' = NoCall
    /\ UNCHANGED issued

\* (faulty variant: the time the request took is waited, not the rest of the timeout)
DelayElapsed(s, timeSinceLastReq) == timeSinceLastReq

\* the delay given to setTimeout after an empty response
Delay(s, timeSinceLastReq) == s.timeout - timeSinceLastReq

\* an empty response: loop at once when the request took longer than the
\* timeout, else after the rest of the timeout
Pace(s, tr) ==
    IF age > s.timeout
    THEN LoopNext(s, tr)
    ELSE /\ self' = s
         /\ trace' = tr
         /\ pc' = "pacing"
         /\ timerAt' = age + Delay(s, age)
         /\ age' = age
         /\ endCall' = NoCall
         /\ UNCHANGED issued

\* the records of a response are new records of the feed, numbered as they come
Results(k) == [i \in 1..k |-> Len(Received(trace)) + i]

\* (faulty variant: the loop over the results starts one record late)
ChangeEventsSkipFirst(s, results) ==
    [i \in 1..(Len(results) - 1) |-> Emit(s, "change", Absent, <<results[i + 1]>>, 0)]

ChangeEvents(s, results) ==
    [i \in 1..Len(results) |-> Emit(s, "change", Absent, <<results[i]>>, 0)]

\* (faulty variant: the cursor is overwritten even by an absent last_seq)
CursorUnguarded(s, lastSeq) == lastSeq

\* the cursor after a response carrying last_seq
Cursor(s, lastSeq) ==
    IF lastSeq # Absent /\ lastSeq # s.since THEN lastSeq ELSE s.since

\* (faulty variant: only an empty response stops a bounded run)
StopOnEmptyOnly(s, results) ==
    IF s.stopOnEmptyChanges /\ Len(results) = 0
    THEN [s EXCEPT !.continue = FALSE]
    ELSE s

\* the bounded-run policy of get()
StopOnEmpty(s, results) ==
    IF s.stopOnEmptyChanges /\ Len(results) < s.batchSize
    THEN [s EXCEPT !.continue = FALSE]
    ELSE s

\* (faulty variant: in wait mode the loop goes on without the acknowledgment)
SuccessNoWait(k, lastSeq) ==
    LET results == Results(k)
        tr1 == (Append(trace, RespEntry(results, lastSeq))) \o ChangeEvents(self, results)
        s1  == [self EXCEPT !.since = Cursor(self, lastSeq)]
        tr2 == IF s1.since # self.since
               THEN Append(tr1, Emit(s1, "seq", s1.since, <<>>, 0))
               ELSE tr1
        s2  == StopOnEmpty(s1, results)
    IN  /\ pc = "inflight"
        /\ last' = [op |-> "then", ret |-> 0]
        /\ UNCHANGED <<run, sp>>
        /\ IF Len(results) > 0
           THEN LoopNext(s2, Append(tr2, Emit(s2, "batch", Absent, results,
                                              IF s2.wait THEN 1 ELSE 0)))
           ELSE IF ~s2.wait /\ ~s2.continue THEN LoopNext(s2, tr2) ELSE Pace(s2, tr2)

\* axios(req).then: a response {results, last_seq} (last_seq may be absent)
Success(k, lastSeq) ==
    LET results == Results(k)
        tr1 == (Append(trace, RespEntry(results, lastSeq))) \o ChangeEvents(self, results)
        s1  == [self EXCEPT !.since = Cursor(self, lastSeq)]
        tr2 == IF s1.since # self.since
               THEN Append(tr1, Emit(s1, "seq", s1.since, <<>>, 0))
               ELSE tr1
        s2  == StopOnEmpty(s1, results)
    IN  /\ pc = "inflight"
        /\ last' = [op |-> "then", ret |-> 0]
        /\ UNCHANGED <<run, sp>>
        /\ IF s2.wait
           THEN IF Len(results) > 0
                THEN /\ self' = s2
                     /\ trace' = Append(tr2, Emit(s2, "batch", Absent, results, 1))
                     /\ pc' = "ack"
                     /\ UNCHANGED <<age, timerAt>>
                     /\ endCall' = NoCall
                     /\ UNCHANGED issued
                ELSE Pace(s2, tr2)
           ELSE IF Len(results) > 0
                THEN LoopNext(s2, Append(tr2, Emit(s2, "batch", Absent, results, 0)))
                ELSE IF ~s2.continue THEN LoopNext(s2, tr2) ELSE Pace(s2, tr2)

Respond == \E k \in 0..MaxResults, lastSeq \in ServerTokens \cup {Absent} : Success(k, lastSeq)

\* err.statusCode = (err.response && err.response.status) || 500
StatusCode(status) == IF status # NoResponse THEN status ELSE DefaultStatus

\* (faulty variants: 400 itself is not fatal; 429 is fatal)
FatalAbove400(statusCode) == statusCode > 400 /\ statusCode # 429 /\ statusCode < 500
FatalWith429(statusCode) == statusCode >= 400 /\ statusCode < 500

Fatal(statusCode) == statusCode >= 400 /\ statusCode # 429 /\ statusCode < 500

\* axios(req).catch: the request failed; hasReason is whether err.reason is set
Failure(status, hasReason) ==
    LET sc  == StatusCode(status)
        tr1 == Append(Append(trace, FailEntry(status)), Emit(self, "error", Absent, <<>>, sc))
    IN  /\ pc = "inflight"
        /\ last' = [op |-> "catch", ret |-> 0]
        /\ UNCHANGED <<run, sp>>
        /\ IF Fatal(sc)
           THEN LET s1 == [self EXCEPT !.continue = FALSE]
                IN  IF hasReason THEN Callback(s1, tr1) ELSE LoopNext(s1, tr1)
           ELSE LoopNext(self, tr1)

\* (err.reason is looked at on the fatal path only)
Fail ==
    \E status \in Statuses, hasReason \in BOOLEAN :
        /\ hasReason => Fatal(StatusCode(status))
        /\ Failure(status, hasReason)

\* the consumer calls the callback given with a 'batch' event (wait mode)
Ack ==
    /\ pc = "ack"
    /\ last' = [op |-> "ack", ret |-> 0]
    /\ UNCHANGED <<run, sp>>
    /\ LoopNext(self, trace)

\* the timer set by Pace fires
TimerFire ==
    /\ pc = "pacing"
    /\ age >= timerAt
    /\ last' = [op |-> "timer", ret |-> 0]
    /\ UNCHANGED <<run, sp>>
    /\ LoopNext(self, trace)

\* the instants of the clock the model looks at
Instants(t) == {a \in {0, t - 1, t, t + 1} : a >= 0}

\* time passes while a request or a timer is pending
Tick ==
    /\ pc \in {"inflight", "pacing"}
    /\ \E a \in Instants(self.timeout) : a > age /\ age' = a
    /\ last' = [op |-> "tick", ret |-> 0]
    /\ UNCHANGED <<self, pc, timerAt, trace, run, sp>>
    /\ endCall' = NoCall
    /\ UNCHANGED issued

Next ==
    \/ StartCall
    \/ GetCall
    \/ StopCall
    \/ Respond
    \/ Fail
    \/ Ack
    \/ TimerFire
    \/ Tick

Spec == Init /\ [][Next]_vars

\* the runtime fires a due timer and the clock advances; the server and the
\* consumer (its calls, its acknowledgments) are under no obligation
FairSpec == Spec /\ WF_vars(TimerFire) /\ WF_vars(Tick)

\* the same reader with a consumer whose 'end' listener calls start(), get()
\* or stop() before it returns
ListenerInit == Boot(TRUE)
ListenerSpec == ListenerInit /\ [][Next]_vars

\* -------------------------------------------------------------- spool
\* (src/lib/changeprocessor.js, and spool() of src/index.js)
\* A line is the sequence of its characters, a record's text taken as three:
\* "{", its seq, "}".  The k-th record of the feed has seq ToString(k).
RecordText(k) == <<"{", ToString(k), "}">>
\* the chunks the changeProcessor is written, one line of the response each:
\* a record, a record and its separator, a blank line, the envelope's first
\* and last line, a record and two separators
Lines(k) ==
    {RecordText(k), RecordText(k) \o <<",">>, <<>>, <<"{", "[">>, <<"]", "}">>,
     RecordText(k) \o <<",", ",">>}

\* (faulty variant: the separator is left on the line)
StripNever(chunk) == chunk

\* remove last char if it is a comma
StripComma(chunk) ==
    IF Len(chunk) > 0 /\ chunk[Len(chunk)] = ","
    THEN SubSeq(chunk, 1, Len(chunk) - 1)
    ELSE chunk

\* JSON.parse: the text of one record parses, anything else throws
Parse(chunk) ==
    IF Len(chunk) = 3 /\ chunk[1] = "{" /\ chunk[3] = "}"
    THEN [ok |-> TRUE, seq |-> chunk[2]]
    ELSE [ok |-> FALSE, seq |-> Absent]

\* changeProcessor.lastSeq before anything was emitted
ZeroSeq == "0"

\* ee.emit('batch', data) on the emitter the changeProcessor was given
BatchEntry(data) == Entry("emit", "batch", Absent, data, 0, sp.ee)

\* the option objects spool() is passed: those of start(), and each batch size
SpoolOptsSet ==
    OptsSet \cup {[o EXCEPT !.keys = {"batchSize"}, !.batchSize = b] :
                    o \in {x \in OptsSet : x.keys = {}}, b \in 1..MaxResults}

\* spool(opts): reset the session, take the options, create the changeProcessor
\* on the session's emitter and batch size, issue the streaming request
\* (a spool() while a spooled response is still outstanding is outside the model)
Spool(opts) ==
    LET s1 == assign(setDefaults(self), opts)
    IN  /\ sp.pc \in {"idle", "done", "failed"}
        /\ sp.n < MaxSpools
        /\ self' = s1
        /\ sp' = [pc |-> "requesting", n |-> sp.n + 1, ee |-> s1.ee,
                  batchSize |-> s1.batchSize, since0 |-> s1.since,
                  input |-> <<>>, buffer |-> <<>>, lastSeq |-> ZeroSeq]
        /\ trace' = <<Entry("req", "spool", s1.since, <<>>, s1.batchSize, 0)>>
        /\ last' = [op |-> "spool", ret |-> s1.ee]
        /\ endCall' = NoCall
        /\ UNCHANGED issued
        /\ UNCHANGED <<pc, age, timerAt, run>>

SpoolCall == \E opts \in SpoolOptsSet : Spool(opts)

\* axios(req) rejects: the promise has a then() and no catch(), nothing is emitted
SpoolReject ==
    /\ sp.pc = "requesting"
    /\ \E status \in Statuses : trace' = Append(trace, FailEntry(status))
    /\ sp' = [sp EXCEPT !.pc = "failed"]
    /\ last' = [op |-> "reject", ret |-> 0]
    /\ endCall' = NoCall
    /\ UNCHANGED issued
    /\ UNCHANGED <<self, pc, age, timerAt, run>>

\* axios(req).then: the response stream is piped into liner and changeProcessor
SpoolResponse ==
    /\ sp.pc = "requesting"
    /\ sp' = [sp EXCEPT !.pc = "streaming"]
    /\ last' = [op |-> "spooling", ret |-> 0]
    /\ endCall' = NoCall
    /\ UNCHANGED issued
    /\ UNCHANGED <<self, pc, age, timerAt, trace, run>>

\* _transform(chunk): strip, parse, buffer, emit a full batch
Transform(chunk) ==
    LET j    == Parse(StripComma(chunk))
        buf1 == IF j.ok THEN Append(sp.buffer, j.seq) ELSE sp.buffer
        full == j.ok /\ Len(buf1) >= sp.batchSize
        data == SubSeq(buf1, 1, sp.batchSize)
    IN  /\ sp.pc = "streaming"
        /\ Len(sp.input) < MaxLines
        /\ sp' = [sp EXCEPT !.input = Append(@, chunk),
                            !.buffer = IF full
                                       THEN SubSeq(buf1, sp.batchSize + 1, Len(buf1))
                                       ELSE buf1,
                            !.lastSeq = IF full THEN data[Len(data)] ELSE @]
        /\ trace' = IF full THEN Append(trace, BatchEntry(data)) ELSE trace
        /\ last' = [op |-> "transform", ret |-> 0]
        /\ endCall' = NoCall
        /\ UNCHANGED issued
        /\ UNCHANGED <<self, pc, age, timerAt, run>>

\* the number of the record the feed sends next
NextRecord == Len(SelectSeq(sp.input, LAMBDA l : Parse(StripComma(l)).ok)) + 1

Line == \E chunk \in Lines(NextRecord) : Transform(chunk)

\* the response stream emits 'error' while it is read: the only 'error'
\* listener is on the changeProcessor, and pipe() forwards no errors to it
StreamError ==
    /\ sp.pc = "streaming"
    /\ sp' = [sp EXCEPT !.pc = "failed"]
    /\ trace' = Append(trace, FailEntry(NoResponse))
    /\ last' = [op |-> "streamerror", ret |-> 0]
    /\ endCall' = NoCall
    /\ UNCHANGED issued
    /\ UNCHANGED <<self, pc, age, timerAt, run>>

\* _flush: the stream has ended, emit what the buffer holds
Flush ==
    /\ sp.pc = "streaming"
    /\ sp' = [sp EXCEPT !.pc = "flushed",
                        !.buffer = <<>>,
                        !.lastSeq = IF sp.buffer # <<>> THEN sp.buffer[Len(sp.buffer)] ELSE @]
    /\ trace' = IF sp.buffer # <<>> THEN Append(trace, BatchEntry(sp.buffer)) ELSE trace
    /\ last' = [op |-> "flush", ret |-> 0]
    /\ endCall' = NoCall
    /\ UNCHANGED issued
    /\ UNCHANGED <<self, pc, age, timerAt, run>>

\* on('finish'): set the 10 ms timer
Finish ==
    /\ sp.pc = "flushed"
    /\ sp' = [sp EXCEPT !.pc = "finishing"]
    /\ last' = [op |-> "finish", ret |-> 0]
    /\ endCall' = NoCall
    /\ UNCHANGED issued
    /\ UNCHANGED <<self, pc, age, timerAt, trace, run>>

\* (faulty variant: 'end' carries the cursor of the session)
EndTimerCursor ==
    /\ sp.pc = "finishing"
    /\ sp' = [sp EXCEPT !.pc = "done"]
    /\ trace' = Append(trace, Emit(self, "end", self.since, <<>>, 0))
    /\ last' = [op |-> "endtimer", ret |-> 0]
    /\ endCall' = NoCall
    /\ UNCHANGED issued
    /\ UNCHANGED <<self, pc, age, timerAt, run>>

\* the timer fires: self.ee.emit('end', cp.lastSeq)
EndTimer ==
    /\ sp.pc = "finishing"
    /\ sp' = [sp EXCEPT !.pc = "done"]
    /\ trace' = Append(trace, Emit(self, "end", sp.lastSeq, <<>>, 0))
    /\ last' = [op |-> "endtimer", ret |-> 0]
    /\ endCall' = NoCall
    /\ UNCHANGED issued
    /\ UNCHANGED <<self, pc, age, timerAt, run>>

SpoolNext ==
    \/ SpoolCall
    \/ SpoolReject
    \/ SpoolResponse
    \/ Line
    \/ StreamError
    \/ Flush
    \/ Finish
    \/ EndTimer

\* a reader used for spooling only
SpoolSpec == Init /\ [][SpoolNext]_vars

\* the stream machinery and the runtime run what is due
SpoolFairSpec == SpoolSpec /\ WF_vars(Finish) /\ WF_vars(EndTimer)

\* the four calls of the reader interleaved, with the responses of the long
\* poll and of the spool request; the server sends no failure and no line
ApiNext ==
    \/ StartCall
    \/ GetCall
    \/ StopCall
    \/ SpoolCall
    \/ Respond
    \/ SpoolResponse

ApiSpec == Init /\ [][ApiNext]_vars

\* ------------------------------------------------------------- claims
IsEmit(e, nm) == e.kind = "emit" /\ e.name = nm
IsReq(e) == e.kind = "req"
IsOk(e) == e.kind = "resp" /\ e.name = "ok"
IsFail(e) == e.kind = "resp" /\ e.name = "fail"
Idx(P(_)) == {i \in DOMAIN trace : P(trace[i])}
IsChange(e) == IsEmit(e, "change")
IsSeq(e) == IsEmit(e, "seq")
IsBatch(e) == IsEmit(e, "batch")
IsError(e) == IsEmit(e, "error")
IsEnd(e) == IsEmit(e, "end")
Max(S) == CHOOSE x \in S : \A y \in S : y <= x

\* the records carried by the 'change' events, in emission order
Changed == LET ev == SelectSeq(trace, IsChange) IN [i \in DOMAIN ev |-> ev[i].recs[1]]

\* C1: the 'change' events of a run are the records of its successful
\* responses, concatenated in arrival order: none reordered, dropped or repeated
C1_ChangesAreResults == Changed = Received(trace)

\* two non-empty successful responses have been delivered, the second with
\* two records
C1_Witness ==
    /\ Cardinality({i \in Idx(IsOk) : trace[i].recs # <<>>}) = 2
    /\ Len(Changed) >= 3

\* the last_seq most recently observed before position i ("" when none)
LastSeqBefore(i) ==
    LET S == {j \in Idx(IsOk) : j < i /\ trace[j].tok # Absent}
    IN  IF S = {} THEN Absent ELSE trace[Max(S)].tok
SeqOrEnd == Idx(IsSeq) \cup Idx(IsEnd)
ServerMonotone ==
    \A i, j \in Idx(IsOk) :
        (i < j /\ trace[i].tok # Absent /\ trace[j].tok # Absent)
            => Rank(trace[i].tok) <= Rank(trace[j].tok)

\* C2: every 'seq' and 'end' token is the last_seq most recently observed
\* (for 'end', the run's starting cursor when none was observed), and against
\* a server whose last_seq never decreases the tokens never decrease
C2_CursorFollowsLastSeq ==
    /\ \A i \in Idx(IsSeq) : trace[i].tok = LastSeqBefore(i) /\ trace[i].tok # Absent
    /\ \A i \in Idx(IsEnd) :
            trace[i].tok = IF LastSeqBefore(i) = Absent THEN run.since0
                           ELSE LastSeqBefore(i)
    /\ ServerMonotone =>
            \A i, j \in SeqOrEnd : i < j => Rank(trace[i].tok) <= Rank(trace[j].tok)

\* a run that emitted seq s1, then seq s2, then ended with s2
C2_Witness ==
    /\ \E i, j \in Idx(IsSeq) : i < j /\ trace[i].tok = "s1" /\ trace[j].tok = "s2"
    /\ \E i \in Idx(IsEnd) : trace[i].tok = "s2"

FatalStatus(n) == n >= 400 /\ n <= 499 /\ n # 429
RecoverableStatus(n) == n = NoResponse \/ n = 429 \/ n >= 500

\* C3: a 4xx response other than 429 is followed by exactly one 'error' event
\* carrying its status, then the 'end' event, and that is the end of the run:
\* no request follows
C3_FatalEndsRun ==
    \A i \in Idx(IsFail) :
        FatalStatus(trace[i].n) =>
            /\ Len(trace) = i + 2
            /\ IsError(trace[i + 1]) /\ trace[i + 1].n = trace[i].n
            /\ IsEnd(trace[i + 2])
            /\ pc = "idle"

\* a run whose second request got a 499
C3_Witness ==
    \E i \in Idx(IsFail) : trace[i].n = 499 /\ Cardinality(Idx(IsReq)) = 2

\* the request that failure i answers
ReqBefore(i) == Max({j \in Idx(IsReq) : j < i})

GetRun == run.kind = "get"
Ended == pc = "idle" /\ Idx(IsEnd) # {}
\* response i carries fewer records than the limit of the request it answers
ShortAt(i) == IsOk(trace[i]) /\ Len(trace[i].recs) < trace[ReqBefore(i)].n
ShortSeen == \E i \in Idx(IsOk) : ShortAt(i)
\* the 'change' events of response i follow it, one per record, in order
EmittedAfter(i) ==
    /\ Len(trace) >= i + Len(trace[i].recs)
    /\ \A k \in 1..Len(trace[i].recs) :
           IsChange(trace[i + k]) /\ trace[i + k].recs = <<trace[i].recs[k]>>

\* after a short response a get() run has continue false, issues no further
\* request, and has emitted the records of that response before any 'end'
C5_ShortStopsGet ==
    GetRun =>
        \A i \in Idx(IsOk) :
            ShortAt(i) =>
                /\ \A j \in Idx(IsReq) : j < i
                /\ EmittedAfter(i)
                /\ \A j \in Idx(IsEnd) : j > i + Len(trace[i].recs)
                /\ pc # "idle" => ~self.continue /\ pc \in {"ack", "pacing"}

\* C5 as claimed: a get() run always terminates once a successful response
\* carries fewer than batchSize results, its results emitted before 'end'
C5_GetAlwaysTerminates ==
    /\ []C5_ShortStopsGet
    /\ (GetRun /\ ShortSeen) ~> Ended

\* C5 amended: ... provided that, in wait mode, the consumer acknowledges the
\* 'batch' event of that response (the loop is suspended until then)
C5_GetTerminatesOnceAcked ==
    /\ []C5_ShortStopsGet
    /\ (GetRun /\ ShortSeen /\ pc # "ack") ~> Ended

\* a get() run ended on a short, non-empty second response after a full first one
C5_Witness ==
    /\ GetRun /\ Ended
    /\ Cardinality(Idx(IsReq)) = 2
    /\ \E i \in Idx(IsOk) : ShortAt(i) /\ trace[i].recs # <<>>
    /\ \E i \in Idx(IsOk) : ~ShortAt(i)

\* C6: the 'end' of a run begun with start() comes only after stop() or after
\* a fatal (4xx other than 429) response
C6_StartEndsOnlyOnStopOrFatal ==
    (run.kind = "start" /\ Idx(IsEnd) # {}) =>
        \/ run.stopped
        \/ \E i \in Idx(IsFail) : FatalStatus(trace[i].n)

\* the same with runs left out on which get() was called while they ran
C6_UnlessGetCalled ==
    (run.kind = "start" /\ Idx(IsEnd) # {} /\ ~run.got) =>
        \/ run.stopped
        \/ \E i \in Idx(IsFail) : FatalStatus(trace[i].n)

\* C7: a run emits 'end' once, as its last event, on the handle start()
\* returned and with the final cursor; it has exited exactly when 'end' is
\* there, and until then the session is not reset
C7_EndIsLast ==
    /\ Cardinality(Idx(IsEnd)) <= 1
    /\ \A j \in Idx(IsEnd) :
           /\ j = Len(trace)
           /\ trace[j].t = run.handle
           /\ trace[j].tok = IF LastSeqBefore(j) = Absent THEN run.since0
                              ELSE LastSeqBefore(j)
           /\ self.ee = run.handle + 1
    /\ run.n > 0 => (pc = "idle" <=> Idx(IsEnd) # {})
    /\ (run.n > 0 /\ Idx(IsEnd) = {}) => self.started /\ self.ee = run.handle

\* a run that emitted changes, a seq and a batch has ended
C7_Witness ==
    /\ Ended
    /\ Idx(IsChange) # {} /\ Idx(IsSeq) # {} /\ Idx(IsBatch) # {}

StoppedInRun == run.stopped /\ run.stopAt > 0
StoppedInFlight == StoppedInRun /\ IsReq(trace[run.stopAt])
Settled(e) == e.kind = "resp"

\* after stop() in a run: no request is issued, only the request in flight
\* settles, its records are emitted, nothing but 'end' follows them, and a
\* run not in wait mode ends as that request settles
C9_StopLetsSettle ==
    StoppedInRun =>
        /\ \A i \in Idx(IsReq) : i <= run.stopAt
        /\ Cardinality({i \in Idx(Settled) : i > run.stopAt}) <= 1
        /\ \A i \in Idx(IsOk) :
               i > run.stopAt =>
                   /\ EmittedAfter(i)
                   /\ trace[i].recs # <<>> => Idx(IsBatch) \cap (i..Len(trace)) # {}
        /\ pc = "idle" => IsEnd(trace[Len(trace)])
        /\ (pc # "idle" /\ \E i \in Idx(Settled) : i > run.stopAt) =>
               self.wait /\ pc \in {"ack", "pacing"}

\* C9 as claimed: ... and the run then emits 'end'
C9_StopThenEnd ==
    /\ []C9_StopLetsSettle
    /\ (StoppedInFlight /\ pc # "inflight") ~> Ended

\* C9 amended: ... and the run then emits 'end', in wait mode once the
\* consumer has acknowledged the 'batch' event of the settled response
C9_StopThenEndOnceAcked ==
    /\ []C9_StopLetsSettle
    /\ (StoppedInFlight /\ pc \notin {"inflight", "ack"}) ~> Ended

\* stop() came while a request was in flight; it settled with records and
\* the run ended
C9_Witness ==
    /\ StoppedInFlight /\ Ended
    /\ \E i \in Idx(IsOk) : i > run.stopAt /\ trace[i].recs # <<>>

\* the response most recently received in tr is a success without records
LastRespEmpty(tr) ==
    LET S == {j \in DOMAIN tr : tr[j].kind = "resp"}
    IN  S # {} /\ IsOk(tr[Max(S)]) /\ tr[Max(S)].recs = <<>>
\* this step issues a request of the running loop
IssuesReq == pc # "idle" /\ NReq(trace') > NReq(trace)

\* C10: a request that follows an empty response is issued no sooner than
\* timeout after the previous one: the handler loops at once only when the
\* request took longer than timeout, and else sets a timer for the rest
C10_Pacing ==
    [][/\ (IssuesReq /\ LastRespEmpty(trace')) => age >= self.timeout
       /\ (last'.op = "then" /\ IssuesReq /\ LastRespEmpty(trace')) => age > self.timeout
       /\ (last'.op = "then" /\ pc' = "pacing") =>
              /\ LastRespEmpty(trace') /\ age <= self.timeout
              /\ timerAt' - age = self.timeout - age]_vars

\* the timer set after an empty response has fired and the next request is out
C10_Witness ==
    /\ last.op = "timer" /\ pc = "inflight"
    /\ LastRespEmpty(trace) /\ Cardinality(Idx(IsReq)) = 2

\* ---- C11
\* the 'batch' events a step appended that carry an acknowledgment callback
AckBatches ==
    {i \in (Len(trace) + 1)..Len(trace') : IsBatch(trace'[i]) /\ trace'[i].n = 1}

\* C11: in wait mode a non-empty response's 'batch' event carries a callback
\* and suspends the loop; until the consumer calls it no request is issued and
\* no 'end' is emitted (the history and the position stay as they are), and
\* the call makes the loop proceed: the next request is issued or the run ends.
C11_AckGatesLoop ==
    [][/\ (last'.op = "then" /\ self.wait /\ Len(trace') > Len(trace)
             /\ IsOk(trace'[Len(trace) + 1]) /\ trace'[Len(trace) + 1].recs # <<>>)
          => /\ pc' = "ack"
             /\ AckBatches = {Len(trace')}
             /\ trace'[Len(trace')].recs = trace'[Len(trace) + 1].recs
       /\ pc = "ack"
          => IF last'.op = "ack"
             THEN /\ Len(trace') = Len(trace) + 1
                  /\ SubSeq(trace', 1, Len(trace)) = trace
                  /\ IsReq(trace'[Len(trace')]) \/ IsEnd(trace'[Len(trace')])
                  /\ pc' \in {"inflight", "idle"}
             ELSE trace' = trace /\ pc' = "ack"]_vars

\* a wait-mode run whose batch was acknowledged, after which the next request went out
C11_Witness ==
    /\ last.op = "ack"
    /\ pc = "inflight"
    /\ \E i \in Idx(IsBatch) : trace[i].n = 1 /\ IsReq(trace[i + 1])

\* ---- C12
\* a session at its defaults whose emitter is e
Defaults(e) == setDefaults([ee |-> e - 1])
RunEndedHere == pc = "idle" /\ last.op \in {"then", "catch", "ack", "timer"}

\* C12: when a long-poll run terminates, normally or on a fatal error, every
\* session field is at its default and the emitter is a new one; between runs
\* only stop() changes the session; and a run begun by a following call with
\* no options sends the request of a first run (since 'now', limit 100) and
\* holds in every other field what a first run holds.
C12_ResetOnEnd ==
    /\ RunEndedHere => self = Defaults(run.handle + 1)
    /\ pc = "idle" => [self EXCEPT !.continue = TRUE] = Defaults(self.ee)
    /\ (run.n > 0 /\ run.keys = {})
       => /\ trace[1] = ReqEntry(Defaults(run.handle))
          /\ run.since0 = Now
          /\ pc # "idle"
             => [self EXCEPT !.since = Now, !.started = FALSE, !.continue = TRUE,
                             !.stopOnEmptyChanges = FALSE] = Defaults(self.ee)

\* a run resumed from a cursor on a filtered feed has advanced its cursor and
\* has just ended
C12_Witness ==
    /\ RunEndedHere
    /\ "selector" \in run.keys
    /\ \E i \in Idx(IsEnd) : trace[i].tok = "s2"

\* ---- C17
\* C17: no long-poll request is issued in a state where continue is false,
\* the first request of a run begun after stop() included: every step that
\* puts a request at the end of the history leaves continue true.
C17_NoRequestOnceStopped ==
    [][(trace' # trace /\ trace' # <<>> /\ IsReq(trace'[Len(trace')]))
       => self'.continue]_vars

\* ---- C18
\* C18: get() while a run is started is a no-op: it returns the handle of the
\* run and changes no field of the session, nor the loop, nor the history.
C18_GetWhileStartedIsNoop ==
    [][(self.started /\ last'.op = "get")
       => /\ last'.ret = run.handle
          /\ self' = self
          /\ <<pc, age, timerAt, trace>>' = <<pc, age, timerAt, trace>>]_vars

\* ---- C20
\* C20: 'end' is delivered while the session is still started: a start() or
\* get() the consumer calls inside its 'end' listener returns the handle of
\* the run that has just finished and begins no run (no request follows the
\* 'end', the run count stays), the session is reset after the listener
\* returns, and a run begins only on a session that is not started, with the
\* emitter the reset created.
C20_CallInsideEndIsNoop ==
    [][/\ endCall'.op \in {"start", "get"}
          => /\ self.started
             /\ endCall'.ret = run.handle
             /\ run' = run
             /\ IsEnd(trace'[Len(trace')]) /\ trace'[Len(trace')].t = run.handle
             /\ NReq(trace') = NReq(trace)
             /\ pc' = "idle"
             /\ self' = Defaults(run.handle + 1)
       /\ run'.n > run.n
          => /\ ~self.started
             /\ run'.handle = self.ee
             /\ run.n > 0 => run'.handle > run.handle]_vars

\* the 'end' listener of a run has called get(), and the run is over
C20_Witness ==
    /\ endCall.op = "get"
    /\ endCall.ret = run.handle
    /\ Ended
    /\ ~self.started

\* ---- C13
\* a line that is the text of a record, with one trailing ',' or none
IsRecordLine(l) ==
    /\ Len(l) \in {3, 4}
    /\ l[1] = "{"
    /\ l[3] = "}"
    /\ Len(l) = 4 => l[4] = ","
\* the seq of the records the lines hold, in stream order
RecordSeqs(input) ==
    LET recs == SelectSeq(input, IsRecordLine) IN [i \in DOMAIN recs |-> recs[i][2]]
Batches == SelectSeq(trace, IsBatch)
RECURSIVE Concat(_)
Concat(bs) == IF bs = <<>> THEN <<>> ELSE bs[1].recs \o Concat(Tail(bs))
StreamEnded == sp.pc \in {"flushed", "finishing", "done"}

\* C13: once the stream has ended, for the N record lines among the lines
\* read (each with one trailing ',' or none, the other lines unparseable) the
\* changeProcessor has emitted ceil(N / batchSize) 'batch' events, each of
\* batchSize records except possibly the last, holding the N records in
\* order, and its lastSeq is the seq of the N-th record.
C13_SpoolBatches ==
    StreamEnded =>
        LET seqs == RecordSeqs(sp.input)
            N    == Len(seqs)
            b    == sp.batchSize
        IN  /\ b >= 1
            /\ Len(Batches) = (N + b - 1) \div b
            /\ \A i \in 1..(Len(Batches) - 1) : Len(Batches[i].recs) = b
            /\ N > 0 => /\ Len(Batches[Len(Batches)].recs) \in 1..b
                        /\ sp.lastSeq = seqs[N]
            /\ Concat(Batches) = seqs
            /\ \A i \in DOMAIN Batches : Batches[i].t = sp.ee

\* three records, with and without separator, and an envelope line, in batches of two
C13_Witness ==
    /\ StreamEnded
    /\ sp.batchSize = 2
    /\ Len(RecordSeqs(sp.input)) = 3
    /\ \E i \in DOMAIN sp.input : IsRecordLine(sp.input[i]) /\ Len(sp.input[i]) = 4
    /\ \E i \in DOMAIN sp.input : IsRecordLine(sp.input[i]) /\ Len(sp.input[i]) = 3
    /\ \E i \in DOMAIN sp.input : ~IsRecordLine(sp.input[i])
    /\ Len(Batches) = 2

\* ---- C14
SpoolEndIsLast ==
    /\ Cardinality(Idx(IsEnd)) <= 1
    /\ sp.pc = "done" <=> Idx(IsEnd) # {}
    /\ Idx(IsEnd) # {}
       => /\ Idx(IsEnd) = {Len(trace)}
          /\ trace[Len(trace)].tok = sp.lastSeq
          /\ trace[Len(trace)].t = sp.ee
          /\ sp.buffer = <<>>
          /\ Concat(Batches) = RecordSeqs(sp.input)

\* C14: in a spool run a stream that has completed leads to the 'end' event;
\* the run emits at most one 'end', it carries the lastSeq the changeProcessor
\* recorded, and it comes after every 'batch' of the run: when it is emitted
\* the buffer is empty and the batches before it, the flushed one included,
\* hold every record of the stream.
C14_SpoolEndAfterBatches ==
    /\ []SpoolEndIsLast
    /\ (sp.pc = "flushed") ~> (sp.pc = "done")

\* a run whose last batch was flushed short, then ended on its last record
C14_Witness ==
    /\ sp.pc = "done"
    /\ Len(Batches) = 2
    /\ Len(Batches[2].recs) < sp.batchSize
    /\ IsEnd(trace[Len(trace)])
    /\ trace[Len(trace)].tok = "3"

\* ---- C15
\* C15: a spool run whose streaming request failed, or whose response stream
\* failed while it was read, has emitted an 'error' event on the handle
\* spool() returned.
C15_SpoolErrorEmitted ==
    sp.pc = "failed" => \E i \in Idx(IsError) : trace[i].t = sp.ee

\* ---- C16
\* the requests of the reader that have been issued and are not yet over:
\* the long poll awaiting its response, the spool request awaiting or
\* streaming its response
Outstanding ==
    (IF pc = "inflight" THEN 1 ELSE 0)
    + (IF sp.pc \in {"requesting", "streaming"} THEN 1 ELSE 0)

\* C16: whatever the order of start(), get(), stop() and spool() calls, at
\* most one request of the reader is outstanding.
C16_OneRequestOutstanding == Outstanding <= 1

\* ---- C19
\* C19: the token of the 'end' event of a spool run is the seq of the last
\* record delivered, or the since the spool started from when no record was
\* delivered.
C19_SpoolEndIsResumeCursor ==
    \A i \in Idx(IsEnd) :
        LET seqs == RecordSeqs(sp.input)
        IN  trace[i].tok = IF seqs # <<>> THEN seqs[Len(seqs)] ELSE sp.since0
====
